---- MODULE Spec2Model ----
(***************************************************************************)
(* Model of the ML processor Lambda (src/ml-lambda2.py): the recompute     *)
(* decision, feature extraction, the seven-part analysis pipeline and the  *)
(* handler's reads and writes of the two S3 objects it owns (the cache     *)
(* record under ml-results/ and the final analysis under analysis/).       *)
(*                                                                         *)
(* Abstractions.  A match is identified by its matchId; of a participant   *)
(* record the model keeps the win flag and whether its statistics are      *)
(* numbers the numerical library accepts.  The numerical content of a      *)
(* sub-result is abstracted to the fields that depend only on the number   *)
(* of samples and on their win flags.  An S3 request either succeeds or    *)
(* raises; put_object replaces the whole object in one step.               *)
(***************************************************************************)
EXTENDS Integers, Sequences, FiniteSets, TLC

VARIABLES
    cache,        \* S3 object ml-results/<player>_ml.json, or None
    analysis,     \* S3 object analysis/<player>_analysis.json, or None
    pc,           \* per run: position in lambda_handler
    raw_data,     \* per run: the raw batch read from S3 (line 29)
    existing_ml,  \* per run: what get_existing_ml_results returned (line 35)
    decision,     \* per run: should_recompute and reason (line 37)
    extracted,    \* per run: features and metadata (line 52), or None
    ml_results,   \* per run: the record built in lines 62-68, or None
    response,     \* per run: the value lambda_handler returned, or None
    readFailed,   \* per run: get_object on the cache key raised although the key exists
    clock,        \* number of invocations started; stands for datetime.utcnow()
    d_raw,        \* decision study: the raw batch given to should_recompute_ml
    d_existing,   \* decision study: the cache record given to should_recompute_ml
    d_out,        \* decision study: its result, or None
    p_features,   \* pipeline study: the sample list
    p_out,        \* pipeline study: outcome of run_comprehensive_ml_analysis, or None
    predictor,    \* lambda_handler.py: the module global predictor (line 15), or None
    model_store,  \* the model artifacts the predictor is constructed from, or None
    h_pc,         \* lambda_handler.py: position of the process in handler
    call          \* ml_training: the library call last made and its outcome, or None

vars == <<cache, analysis, pc, raw_data, existing_ml, decision, extracted,
          ml_results, response, readFailed, clock,
          d_raw, d_existing, d_out, p_features, p_out,
          predictor, model_store, h_pc, call>>

handlerVars == <<cache, analysis, pc, raw_data, existing_ml, decision, extracted,
                 ml_results, response, readFailed, clock>>
decideVars == <<d_raw, d_existing, d_out>>
pipelineVars == <<p_features, p_out>>
libraryVars == <<predictor, model_store, h_pc, call>>

-----------------------------------------------------------------------------
(* Bounds *)
MaxMatchId == 6     \* match ids of the handler's batches are 1..MaxMatchId
MaxDecideId == 6    \* match ids of the decision study are 1..MaxDecideId
MaxSamples == 5     \* longest sample list of the pipeline study
MaxRuns == 2        \* invocations of lambda_handler in one behaviour

(* Program constants *)
MinSamples == 3       \* len(features) < 3
MinNewMatches == 3    \* new_count >= 3
MinKnnSamples == 5    \* len(X) < 5
MaxComponents == 3    \* min(3, len(X), len(feature_names))
NumFeatureNames == 11 \* len(feature_names)

None == [absent |-> TRUE]

Min(a, b) == IF a <= b THEN a ELSE b
Max(a, b) == IF a >= b THEN a ELSE b
Range(s) == {s[i] : i \in DOMAIN s}

\* The elements of a finite set of integers as an ascending list.
RECURSIVE SetToSeq(_)
SetToSeq(S) ==
    IF S = {} THEN <<>>
    ELSE LET lo == CHOOSE x \in S : \A y \in S : x <= y
         IN <<lo>> \o SetToSeq(S \ {lo})

-----------------------------------------------------------------------------
(* should_recompute_ml *)

\* [m['metadata']['matchId'] for m in raw_data['matches']]
MatchIdsOf(raw) == [i \in DOMAIN raw.matches |-> raw.matches[i].matchId]

\* existing_ml.get('processed_match_ids', [])
OldIds(existing) ==
    IF "processed_match_ids" \in DOMAIN existing
    THEN existing.processed_match_ids ELSE <<>>

\* should_recompute_ml with the threshold test new_count > 3
should_recompute_ml_gt(raw, existing) ==
    IF existing = None
    THEN [recompute |-> TRUE, reason |-> "No existing results"]
    ELSE LET new_ids == Range(MatchIdsOf(raw))
             old_ids == Range(OldIds(existing))
             new_count == Cardinality(new_ids \ old_ids)
         IN IF new_ids = old_ids
            THEN [recompute |-> FALSE, reason |-> "No new matches"]
            ELSE IF new_count > MinNewMatches
                 THEN [recompute |-> TRUE,
                       reason |-> ToString(new_count) \o " new matches"]
                 ELSE [recompute |-> FALSE,
                       reason |-> "Only " \o ToString(new_count)
                                      \o " new matches - using cache"]

\* should_recompute_ml counting new matches as len(new_ids) - len(old_ids)
should_recompute_ml_len(raw, existing) ==
    IF existing = None
    THEN [recompute |-> TRUE, reason |-> "No existing results"]
    ELSE LET new_ids == Range(MatchIdsOf(raw))
             old_ids == Range(OldIds(existing))
             new_count == Max(0, Cardinality(new_ids) - Cardinality(old_ids))
         IN IF new_ids = old_ids
            THEN [recompute |-> FALSE, reason |-> "No new matches"]
            ELSE IF new_count >= MinNewMatches
                 THEN [recompute |-> TRUE,
                       reason |-> ToString(new_count) \o " new matches"]
                 ELSE [recompute |-> FALSE,
                       reason |-> "Only " \o ToString(new_count)
                                      \o " new matches - using cache"]

\* `if not existing_ml` is taken for the absent record (None)
should_recompute_ml(raw, existing) ==
    IF existing = None
    THEN [recompute |-> TRUE, reason |-> "No existing results"]
    ELSE LET new_ids == Range(MatchIdsOf(raw))
             old_ids == Range(OldIds(existing))
             new_count == Cardinality(new_ids \ old_ids)
         IN IF new_ids = old_ids
            THEN [recompute |-> FALSE, reason |-> "No new matches"]
            ELSE IF new_count >= MinNewMatches
                 THEN [recompute |-> TRUE,
                       reason |-> ToString(new_count) \o " new matches"]
                 ELSE [recompute |-> FALSE,
                       reason |-> "Only " \o ToString(new_count)
                                      \o " new matches - using cache"]

-----------------------------------------------------------------------------
(* extract_features *)

Raised == [raised |-> TRUE]

\* A match of the raw batch: its id, whether the player is among its
\* participants (and then the win flag), and the state of the player's
\* participant record:
\*   "ok"          every statistic is a number and gameDuration > 0
\*   "malformed"   a required key is missing or gameDuration = 0, so that
\*                 building the feature dict raises (KeyError, ZeroDivisionError)
\*   "nonnumeric"  an optional statistic is present but not a number
\*                 (visionScore: null), which participant.get passes through
PlayerStates == {"win", "loss", "absent"}
DataStates == {"ok", "malformed", "nonnumeric"}

HasPlayer(m) == m.player # "absent"

\* the matches in which a participant has the player's puuid, in batch order
PlayerMatches(raw) == SelectSeq(raw.matches, HasPlayer)

ExtractRaises(raw) == \E i \in DOMAIN raw.matches :
    HasPlayer(raw.matches[i]) /\ raw.matches[i].data = "malformed"

FeatureOf(m) == [win |-> IF m.player = "win" THEN 1 ELSE 0,
                 numeric |-> m.data = "ok"]
MetadataOf(m) == [matchId |-> m.matchId, win |-> m.player = "win"]

\* the two lists features and metadata, or Raised
extract_features(raw) ==
    IF ExtractRaises(raw) THEN Raised
    ELSE LET ms == PlayerMatches(raw)
         IN [features |-> [i \in DOMAIN ms |-> FeatureOf(ms[i])],
             metadata |-> [i \in DOMAIN ms |-> MetadataOf(ms[i])]]

-----------------------------------------------------------------------------
(* the sub-analyses; X is the list of feature dicts, y the list of win flags *)

\* numpy/scikit-learn reject an array holding a value that is not a number
LibraryRejects(X) == \E i \in DOMAIN X : ~X[i].numeric

WinsOf(X) == [i \in DOMAIN X |-> X[i].win]
Unique(y) == Range(y)

run_pca_analysis(X) ==
    IF LibraryRejects(X) THEN Raised
    ELSE [n_components |-> Min(MaxComponents, Min(Len(X), NumFeatureNames))]

\* cluster_labels holds one label per sample; the model records for each
\* label the match id of the sample it was computed for
run_clustering_analysis(X, metadata) ==
    IF LibraryRejects(X) THEN Raised
    ELSE [n_clusters |-> Min(3, Max(2, Len(X) \div 3)),
          cluster_labels |-> [i \in DOMAIN X |-> metadata[i].matchId]]

run_linear_regression_analysis(X) ==
    IF LibraryRejects(X) THEN Raised
    ELSE [n_predictions |-> Len(X)]

run_logistic_regression_analysis(X, y) ==
    IF Cardinality(Unique(y)) < 2 THEN [error |-> "Insufficient class diversity"]
    ELSE IF LibraryRejects(X) THEN Raised
    ELSE [n_predictions |-> Len(X)]

run_knn_analysis(X, y) ==
    IF Len(X) < MinKnnSamples THEN [error |-> "Insufficient data"]
    ELSE IF LibraryRejects(X) THEN Raised
    ELSE [k |-> Min(3, Len(X) - 1), actual_win |-> y[Len(y)] = 1]

run_decision_tree_analysis(X, y) ==
    IF Cardinality(Unique(y)) < 2 THEN [error |-> "Insufficient class diversity"]
    ELSE IF LibraryRejects(X) THEN Raised
    ELSE [n_features |-> NumFeatureNames]

\* compute_statistics with the integer quotient wins // total as win_rate
compute_statistics_floor(features, metadata) ==
    LET wins == Cardinality({i \in DOMAIN features : features[i].win = 1})
        total == Len(features)
    IN IF LibraryRejects(features) THEN Raised
       ELSE [total_games |-> total, wins |-> wins, losses |-> total - wins,
             win_rate |-> IF total > 0 THEN [num |-> wins \div total, den |-> 1]
                          ELSE [num |-> 0, den |-> 1]]

\* win_rate is the exact quotient wins / total, kept as numerator and denominator
compute_statistics(features, metadata) ==
    LET wins == Cardinality({i \in DOMAIN features : features[i].win = 1})
        total == Len(features)
    IN IF LibraryRejects(features) THEN Raised
       ELSE [total_games |-> total, wins |-> wins, losses |-> total - wins,
             win_rate |-> IF total > 0 THEN [num |-> wins, den |-> total]
                          ELSE [num |-> 0, den |-> 1]]

SubResultNames == {"pca", "clustering", "linear_regression", "logistic_regression",
                   "knn", "decision_tree", "statistics"}

\* The seven assignments of lines 155-173 run in sequence with no handler
\* around any of them: the first sub-analysis that raises ends the function.
run_comprehensive_ml_analysis(features, metadata) ==
    LET y == WinsOf(features)
        results == [pca |-> run_pca_analysis(features),
                    clustering |-> run_clustering_analysis(features, metadata),
                    linear_regression |-> run_linear_regression_analysis(features),
                    logistic_regression |-> run_logistic_regression_analysis(features, y),
                    knn |-> run_knn_analysis(features, y),
                    decision_tree |-> run_decision_tree_analysis(features, y),
                    statistics |-> compute_statistics(features, metadata)]
    IN IF \E k \in SubResultNames : results[k] = Raised THEN Raised ELSE results

-----------------------------------------------------------------------------
(* the objects lambda_handler builds *)

InsufficientData == [insufficient |-> TRUE]

ProcessedIdsOf(metadata) == [i \in DOMAIN metadata |-> metadata[i].matchId]

\* line 54 with the test len(features) <= 3
TooFewSamples_le(features) == Len(features) <= MinSamples

\* line 54
TooFewSamples(features) == Len(features) < MinSamples

\* Lines 54-68 with processed_match_ids losing the id of the first sample
ComputeMlResults_Tail(ext, reason, now) ==
    IF ext = Raised THEN Raised
    ELSE IF TooFewSamples(ext.features) THEN InsufficientData
    ELSE LET results == run_comprehensive_ml_analysis(ext.features, ext.metadata)
         IN IF results = Raised THEN Raised
            ELSE results @@
                 [processed_match_ids |-> Tail(ProcessedIdsOf(ext.metadata)),
                  last_updated |-> now,
                  num_matches_analyzed |-> Len(ext.features),
                  recompute_reason |-> reason]

\* Lines 54-68: from the outcome ext of extract_features (line 52), the
\* record to be cached, InsufficientData (line 54) or Raised (an exception
\* out of extraction or of the pipeline).
ComputeMlResults(ext, reason, now) ==
    IF ext = Raised THEN Raised
    ELSE IF TooFewSamples(ext.features) THEN InsufficientData
    ELSE LET results == run_comprehensive_ml_analysis(ext.features, ext.metadata)
         IN IF results = Raised THEN Raised
            ELSE results @@
                 [processed_match_ids |-> ProcessedIdsOf(ext.metadata),
                  last_updated |-> now,
                  num_matches_analyzed |-> Len(ext.features),
                  recompute_reason |-> reason]

\* store_to_s3 that keeps the ids of the record it replaces
store_to_s3_merge(old, data) ==
    IF old = None THEN data
    ELSE [data EXCEPT !.processed_match_ids =
            SetToSeq(Range(old.processed_match_ids) \cup Range(data.processed_match_ids))]

\* store_to_s3 that updates the stored record field by field and leaves out
\* the clustering sub-result
store_to_s3_partial(old, data) ==
    IF old = None THEN data
    ELSE [data EXCEPT !.clustering = old.clustering]

\* put_object: the object at the key becomes the given body
store_to_s3(old, data) == data

store_final_analysis(old, data) == data

\* call_bedrock catches every exception of the model call and falls back to a
\* fixed sentence; the text is not interpreted
call_bedrock(raw, ml) == "text"

\* lines 43-48 with the cached record stamped with the reason of this run
CachedAnalysis_Stamped(raw, existing, reason) ==
    [ml_results |-> [existing EXCEPT !.recompute_reason = reason],
     bedrock_analysis |-> call_bedrock(raw, existing),
     cached |-> TRUE,
     cache_reason |-> reason]

\* lines 43-48
CachedAnalysis(raw, existing, reason) ==
    [ml_results |-> existing,
     bedrock_analysis |-> call_bedrock(raw, existing),
     cached |-> TRUE,
     cache_reason |-> reason]

\* lines 78-84 with the embedded record stamped again at the final store
FreshAnalysis_Restamped(raw, ml, now) ==
    [ml_results |-> [ml EXCEPT !.last_updated = now],
     bedrock_analysis |-> call_bedrock(raw, ml),
     cached |-> FALSE,
     processed_at |-> now]

\* lines 78-84
FreshAnalysis(raw, ml, now) ==
    [ml_results |-> ml,
     bedrock_analysis |-> call_bedrock(raw, ml),
     cached |-> FALSE,
     processed_at |-> now]

\* line 101: the body carries str(e); the model keeps where e came from
Response500(e) == [statusCode |-> 500, error |-> e]
Response400 == [statusCode |-> 400, error |-> "Need at least 3 matches for analysis"]
ResponseCached(reason) == [statusCode |-> 200, cached |-> TRUE, reason |-> reason]
ResponseFresh(reason, n) ==
    [statusCode |-> 200, cached |-> FALSE, reason |-> reason, matches_analyzed |-> n]

-----------------------------------------------------------------------------
(* the raw batches *)

MatchIds == 1..MaxMatchId

\* The player took part in every match except each sixth one; wins and
\* losses alternate.
PlayerOf(id) == IF id % 6 = 0 THEN "absent"
                ELSE IF id % 2 = 1 THEN "win" ELSE "loss"

Newest(S) == CHOOSE x \in S : \A y \in S : y <= x

\* The batch holding the matches S, oldest first; defect is the state of the
\* participant record of its newest match.
BatchOf(S, defect) ==
    [matches |-> [i \in 1..Cardinality(S) |->
        LET id == SetToSeq(S)[i]
        IN [matchId |-> id,
            player |-> PlayerOf(id),
            data |-> IF id = Newest(S) /\ PlayerOf(id) # "absent"
                     THEN defect ELSE "ok"]]]

\* A raw batch holds consecutive matches of the player's history.
Batches == {BatchOf(lo..hi, d) : lo \in MatchIds, hi \in 0..MaxMatchId, d \in DataStates}

-----------------------------------------------------------------------------
(* lambda_handler: two invocations may be in flight for the same player *)

Runs == {1, 2}

\* get_existing_ml_results: the bare except turns every failure of
\* get_object, the missing key included, into None
get_existing_ml_results(stored, getOk) == IF getOk THEN stored ELSE None

Return(r, resp) ==
    /\ pc' = [pc EXCEPT ![r] = "done"]
    /\ response' = [response EXCEPT ![r] = resp]
    /\ raw_data' = [raw_data EXCEPT ![r] = None]
    /\ existing_ml' = [existing_ml EXCEPT ![r] = None]
    /\ decision' = [decision EXCEPT ![r] = None]
    /\ extracted' = [extracted EXCEPT ![r] = None]
    /\ ml_results' = [ml_results EXCEPT ![r] = None]

\* Lines 25-38: read the raw batch, read the cache record, decide.
Begin(r) ==
    /\ pc[r] \in {"idle", "done"}
    /\ clock < MaxRuns
    /\ clock' = clock + 1
    /\ \E raw \in Batches, rawOk \in BOOLEAN, getOk \in BOOLEAN :
        IF ~rawOk
        THEN /\ Return(r, Response500("get_object"))
             /\ readFailed' = [readFailed EXCEPT ![r] = FALSE]
        ELSE LET existing == get_existing_ml_results(cache, getOk)
                 d == should_recompute_ml(raw, existing)
             IN /\ raw_data' = [raw_data EXCEPT ![r] = raw]
                /\ existing_ml' = [existing_ml EXCEPT ![r] = existing]
                /\ decision' = [decision EXCEPT ![r] = d]
                /\ readFailed' = [readFailed EXCEPT ![r] = cache # None /\ ~getOk]
                /\ pc' = [pc EXCEPT ![r] = IF d.recompute THEN "recompute" ELSE "use_cached"]
                /\ response' = [response EXCEPT ![r] = None]
                /\ extracted' = [extracted EXCEPT ![r] = None]
                /\ ml_results' = [ml_results EXCEPT ![r] = None]
    /\ UNCHANGED <<cache, analysis, decideVars, pipelineVars, libraryVars>>

\* Lines 40-49: the skip path.
UseCached(r) ==
    /\ pc[r] = "use_cached"
    /\ \E putOk \in BOOLEAN :
        IF putOk
        THEN /\ analysis' = store_final_analysis(analysis,
                     CachedAnalysis(raw_data[r], existing_ml[r], decision[r].reason))
             /\ Return(r, ResponseCached(decision[r].reason))
        ELSE /\ analysis' = analysis
             /\ Return(r, Response500("put_object"))
    /\ UNCHANGED <<cache, readFailed, clock, decideVars, pipelineVars, libraryVars>>

\* Lines 51-72: extract, check the sample count, analyse, store the record.
Recompute(r) ==
    /\ pc[r] = "recompute"
    /\ \E ext \in {extract_features(raw_data[r])}, putOk \in BOOLEAN :
       \E ml \in {ComputeMlResults(ext, decision[r].reason, clock)} :
           IF ml = Raised
           THEN Return(r, Response500("analysis")) /\ UNCHANGED cache
           ELSE IF ml = InsufficientData
           THEN Return(r, Response400) /\ UNCHANGED cache
           ELSE IF ~putOk
           THEN Return(r, Response500("put_object")) /\ UNCHANGED cache
           ELSE /\ cache' = store_to_s3(cache, ml)
                /\ ml_results' = [ml_results EXCEPT ![r] = ml]
                /\ extracted' = [extracted EXCEPT ![r] = ext]
                /\ pc' = [pc EXCEPT ![r] = "stored"]
                /\ UNCHANGED <<raw_data, existing_ml, decision, response>>
    /\ UNCHANGED <<analysis, readFailed, clock, decideVars, pipelineVars, libraryVars>>

\* Lines 74-95: the final analysis of a recomputing run.
StoreFinal(r) ==
    /\ pc[r] = "stored"
    /\ \E putOk \in BOOLEAN :
        IF putOk
        THEN /\ analysis' = store_final_analysis(analysis,
                     FreshAnalysis(raw_data[r], ml_results[r], clock))
             /\ Return(r, ResponseFresh(decision[r].reason, Len(extracted[r].features)))
        ELSE /\ analysis' = analysis
             /\ Return(r, Response500("put_object"))
    /\ UNCHANGED <<cache, readFailed, clock, decideVars, pipelineVars, libraryVars>>

\* lambda_handler.py has set no predictor and no library call has been made
LibraryIdle ==
    /\ predictor = None /\ model_store = None
    /\ h_pc = "idle" /\ call = None

StudiesIdle ==
    /\ d_raw = None /\ d_existing = None /\ d_out = None
    /\ p_features = <<>> /\ p_out = None
    /\ LibraryIdle

HandlerIdle ==
    /\ cache = None
    /\ analysis = None
    /\ pc = [r \in Runs |-> "idle"]
    /\ raw_data = [r \in Runs |-> None]
    /\ existing_ml = [r \in Runs |-> None]
    /\ decision = [r \in Runs |-> None]
    /\ extracted = [r \in Runs |-> None]
    /\ ml_results = [r \in Runs |-> None]
    /\ response = [r \in Runs |-> None]
    /\ readFailed = [r \in Runs |-> FALSE]
    /\ clock = 0

\* Nothing is stored yet and no invocation is in flight.
Init == HandlerIdle /\ StudiesIdle

\* One invocation at a time.
Next ==
    \/ Begin(1)
    \/ UseCached(1)
    \/ Recompute(1)
    \/ StoreFinal(1)

Spec == Init /\ [][Next]_vars

\* The state an earlier invocation over the batch raw (at time 0) has left
\* behind once it has stored its record and its final analysis and returned.
AfterFirstRun(raw) ==
    \E ml \in {ComputeMlResults(extract_features(raw), "No existing results", 0)} :
        /\ ml \notin {Raised, InsufficientData}
        /\ cache = ml
        /\ analysis = FreshAnalysis(raw, ml, 0)
        /\ pc = [r \in Runs |-> IF r = 1 THEN "done" ELSE "idle"]
        /\ raw_data = [r \in Runs |-> None]
        /\ existing_ml = [r \in Runs |-> None]
        /\ decision = [r \in Runs |-> None]
        /\ extracted = [r \in Runs |-> None]
        /\ ml_results = [r \in Runs |-> None]
        /\ response = [r \in Runs |->
               IF r = 1 THEN ResponseFresh("No existing results",
                                           ml.num_matches_analyzed)
               ELSE None]
        /\ readFailed = [r \in Runs |-> FALSE]
        /\ clock = 0

\* A cache record is already stored: that of the batch of the first
\* MinSamples matches.
InitLive == StudiesIdle /\ AfterFirstRun(BatchOf(1..MinSamples, "ok"))

\* The invocations that follow a first recompute, one at a time; an
\* invocation that has started runs to its return.
SpecLive ==
    /\ InitLive /\ [][Next]_vars
    /\ WF_vars(UseCached(1)) /\ WF_vars(Recompute(1)) /\ WF_vars(StoreFinal(1))

\* Two invocations for the same player, each started once, in any interleaving
\* of their S3 requests.
NextConcurrent ==
    \/ \E r \in Runs : pc[r] = "idle" /\ Begin(r)
    \/ \E r \in Runs : UseCached(r)
    \/ \E r \in Runs : Recompute(r)
    \/ \E r \in Runs : StoreFinal(r)

SpecConcurrent == Init /\ [][NextConcurrent]_vars

-----------------------------------------------------------------------------
(* should_recompute_ml on its own, over every batch and every cache state *)

DecideIds == 1..MaxDecideId

\* a cache record as far as should_recompute_ml reads it
RecordWithIds(P) == [processed_match_ids |-> SetToSeq(P)]

InitDecide ==
    /\ HandlerIdle
    /\ LibraryIdle
    /\ p_features = <<>> /\ p_out = None
    /\ d_raw \in {BatchOf(N, "ok") : N \in SUBSET DecideIds}
    /\ d_existing \in {None} \cup {RecordWithIds(P) : P \in SUBSET DecideIds}
    /\ d_out = None

Decide ==
    /\ d_out = None
    /\ d_out' = should_recompute_ml(d_raw, d_existing)
    /\ UNCHANGED <<d_raw, d_existing, handlerVars, pipelineVars, libraryVars>>

NextDecide == Decide

SpecDecide == InitDecide /\ [][NextDecide]_vars

-----------------------------------------------------------------------------
(* run_comprehensive_ml_analysis on its own, over every list of at least
   MinSamples samples *)

Samples == [win : {0, 1}, numeric : BOOLEAN]

SampleLists == UNION {[1..n -> Samples] : n \in MinSamples..MaxSamples}

\* the metadata list that accompanies a sample list (same length, same wins)
MetadataFor(features) ==
    [i \in DOMAIN features |-> [matchId |-> i, win |-> features[i].win = 1]]

InitPipeline ==
    /\ HandlerIdle
    /\ LibraryIdle
    /\ d_raw = None /\ d_existing = None /\ d_out = None
    /\ p_features \in SampleLists
    /\ p_out = None

RunPipeline ==
    /\ p_out = None
    /\ p_out' = run_comprehensive_ml_analysis(p_features, MetadataFor(p_features))
    /\ UNCHANGED <<p_features, handlerVars, decideVars, libraryVars>>

NextPipeline == RunPipeline

SpecPipeline == InitPipeline /\ [][NextPipeline]_vars

-----------------------------------------------------------------------------
(* the outcome-dependent sub-analyses on their own, over every sample list
   of at most MaxSamples samples *)

OutcomeLists == UNION {[1..n -> Samples] : n \in 0..MaxSamples}

InitOutcome ==
    /\ HandlerIdle
    /\ LibraryIdle
    /\ d_raw = None /\ d_existing = None /\ d_out = None
    /\ p_features \in OutcomeLists
    /\ p_out = None

\* run_logistic_regression_analysis, run_knn_analysis and
\* run_decision_tree_analysis called on X, y as lines 149-150 build them
RunOutcomeAnalyses ==
    /\ p_out = None
    /\ p_out' = [logistic_regression |->
                     run_logistic_regression_analysis(p_features, WinsOf(p_features)),
                 knn |-> run_knn_analysis(p_features, WinsOf(p_features)),
                 decision_tree |->
                     run_decision_tree_analysis(p_features, WinsOf(p_features))]
    /\ UNCHANGED <<p_features, handlerVars, decideVars, libraryVars>>

NextOutcome == RunOutcomeAnalyses

SpecOutcome == InitOutcome /\ [][NextOutcome]_vars

-----------------------------------------------------------------------------
(* src/ml_training/performance_predictor.py: the model registry.

   Scores are kept in thousandths of a point.  A role's model is opaque: the
   model keeps which role it was trained for, and what model.predict answers
   for a call is an input of the call (a value, or an exception). *)

Points(n) == n * 1000

\* roles of _load_models, in loading order
Roles == <<"TOP", "JUNGLE", "MIDDLE", "BOTTOM", "UTILITY">>
RoleSet == Range(Roles)

\* A role's artifact performance_model_<role>.pkl: it loads, it does not
\* exist, or unpickling it raises.
ArtifactStates == {"ok", "absent", "corrupt"}

\* model_metadata.json and features.json: both load, the first one fails
\* (neither is set), or only features.json fails (metadata is set)
MetadataStates == {"ok", "no_metadata", "no_features"}

ModelStores == [artifacts : [RoleSet -> ArtifactStates], metadata : MetadataStates]

\* the list features.json holds, and the dict model_metadata.json holds
FeatureColumns == <<"features.json">>
ModelMetadata == <<"model_metadata.json">>

\* lines 57-74 with the try around the whole loop: the first role that fails
\* ends the loading of the roles after it
LoadedRoles_abort(store) ==
    {Roles[i] : i \in {j \in DOMAIN Roles :
                          \A k \in 1..j : store.artifacts[Roles[k]] = "ok"}}

\* lines 57-74: the roles for which self.models[role] is assigned
LoadedRoles(store) == {r \in RoleSet : store.artifacts[r] = "ok"}

\* the fields __init__ and _load_models leave in self
_load_models(store) ==
    [models |-> [r \in LoadedRoles(store) |-> [trained_for |-> r]],
     metadata |-> IF store.metadata = "no_metadata" THEN <<>> ELSE ModelMetadata,
     feature_columns |-> IF store.metadata = "ok" THEN FeatureColumns ELSE <<>>]

\* PerformancePredictor(model_dir, s3_client, bucket)
PerformancePredictor(store) == _load_models(store)

-----------------------------------------------------------------------------
(* predict_performance and predict_batch *)

\* A participant record: its puuid, its individualPosition ("" also when the
\* key is missing, "Invalid" for a role the API could not determine) and
\* the state of the record:
\*   "ok"          every key the code reads is present and a number
\*   "missing"     a key extract_features subscripts is missing (KeyError)
\*   "nochampion"  championName is missing (KeyError at line 226)
\*   "nopuuid"     puuid is missing (KeyError at line 273)
ParticipantStates == {"ok", "missing", "nochampion", "nopuuid"}
Positions == RoleSet \cup {"", "Invalid"}

Clip(x, lo, hi) == IF x < lo THEN lo ELSE IF x > hi THEN hi ELSE x

\* round(x, n) to a multiple of step; a tie goes up or down as the binary
\* representation of x decides (up)
Round(x, step, up) ==
    LET q == x \div step
        r == x % step
    IN IF 2 * r > step \/ (2 * r = step /\ up) THEN (q + 1) * step ELSE q * step

\* _score_to_grade with exclusive boundaries
_score_to_grade_gt(score) ==
    IF score > Points(90) THEN "S"
    ELSE IF score > Points(80) THEN "A"
    ELSE IF score > Points(70) THEN "B"
    ELSE IF score > Points(60) THEN "C"
    ELSE IF score > Points(50) THEN "D"
    ELSE "F"

_score_to_grade(score) ==
    IF score >= Points(90) THEN "S"
    ELSE IF score >= Points(80) THEN "A"
    ELSE IF score >= Points(70) THEN "B"
    ELSE IF score >= Points(60) THEN "C"
    ELSE IF score >= Points(50) THEN "D"
    ELSE "F"

\* _score_to_percentile without the clip
_score_to_percentile_noclip(score) ==
    Points(50) + ((score - Points(50)) * 3) \div 2

\* 50 + (score - 50) * 1.5, clipped
_score_to_percentile(score) ==
    Clip(Points(50) + ((score - Points(50)) * 3) \div 2, 0, Points(100))

\* extract_features (lines 94-171) raises: a subscripted key is missing, or
\* gameDuration is 0
FeatureExtractionRaises(participant, match_info) ==
    participant.data = "missing" \/ match_info.gameDuration = 0

\* lines 207-232: inference is what model.predict answers for the feature
\* vector ([value |-> v], or Raised); a vector built from an empty
\* feature_columns has no columns and model.predict rejects it
Infer(self, participant, inference, up) ==
    IF self.feature_columns = <<>> \/ inference = Raised THEN None
    ELSE LET score == Clip(inference.value, 0, Points(100))
         IN IF participant.data = "nochampion" THEN None
            ELSE [performance_score |-> Round(score, 10, up),
                  role |-> participant.individualPosition,
                  model |-> self.models[participant.individualPosition].trained_for,
                  grade |-> _score_to_grade(score),
                  percentile |-> Round(_score_to_percentile(score), 100, up),
                  champion |-> "championName",
                  win |-> "win"]

\* predict_performance with extract_features called before the role is looked up
predict_performance_eager(self, participant, match_info, inference, up) ==
    LET role == participant.individualPosition
    IN IF FeatureExtractionRaises(participant, match_info)
       THEN [out |-> Raised, trace |-> <<"extract_features">>,
             self |-> self, participant |-> participant]
       ELSE IF role = "" \/ role \notin DOMAIN self.models
       THEN [out |-> None, trace |-> <<"extract_features">>,
             self |-> self, participant |-> participant]
       ELSE [out |-> Infer(self, participant, inference, up),
             trace |-> <<"extract_features", "predict">>,
             self |-> self, participant |-> participant]

\* predict_performance that remembers in self.metadata the role it last
\* answered for
predict_performance_memo(self, participant, match_info, inference, up) ==
    LET role == participant.individualPosition
    IN IF role = "" \/ role \notin DOMAIN self.models
       THEN [out |-> None, trace |-> <<>>,
             self |-> self, participant |-> participant]
       ELSE IF FeatureExtractionRaises(participant, match_info)
       THEN [out |-> Raised, trace |-> <<"extract_features">>,
             self |-> self, participant |-> participant]
       ELSE [out |-> Infer(self, participant, inference, up),
             trace |-> <<"extract_features", "predict">>,
             self |-> [self EXCEPT !.metadata = <<role>>],
             participant |-> participant]

\* predict_performance (lines 173-232): out is the value returned (None, a
\* result) or Raised; trace lists the calls made to extract_features and to
\* model.predict; self and participant are the two objects after the call.
predict_performance(self, participant, match_info, inference, up) ==
    LET role == participant.individualPosition
    IN IF role = "" \/ role \notin DOMAIN self.models
       THEN [out |-> None, trace |-> <<>>,
             self |-> self, participant |-> participant]
       ELSE IF FeatureExtractionRaises(participant, match_info)
       THEN [out |-> Raised, trace |-> <<"extract_features">>,
             self |-> self, participant |-> participant]
       ELSE [out |-> Infer(self, participant, inference, up),
             trace |-> <<"extract_features", "predict">>,
             self |-> self, participant |-> participant]

\* predict_batch (lines 259-279): out is the map from puuid to result, or
\* Raised when participant['puuid'] or predict_performance raises; self is
\* the predictor after the call; inferences[i] is what model.predict answers
\* for participants[i].
predict_batch(self, participants, match_info, inferences, up) ==
    LET Prediction(i) ==
            predict_performance(self, participants[i], match_info, inferences[i], up).out
        RaisesAt(i) ==
            participants[i].data = "nopuuid" \/ Prediction(i) = Raised
        Stored == {i \in DOMAIN participants : Prediction(i) # None}
        LastOf(p) == CHOOSE i \in Stored :
                        /\ participants[i].puuid = p
                        /\ \A j \in Stored : participants[j].puuid = p => j <= i
    IN [out |-> IF \E i \in DOMAIN participants : RaisesAt(i) THEN Raised
                ELSE [p \in {participants[i].puuid : i \in Stored} |->
                         Prediction(LastOf(p))],
        self |-> self]

-----------------------------------------------------------------------------
(* the inputs of the predictor *)

MaxBatch == 2     \* longest participant list given to predict_batch

Puuids == {"p1", "p2"}

\* what a role's model may answer, in thousandths: below 0, above 100, at
\* and just below each grade boundary, and values whose percentile or score
\* is a rounding tie
ModelOutputs ==
    {0 - 5000, 0, 16666, 49990, 50000, 50040, 50100, 59998, 60000, 69998, 70000,
     79990, 80000, 83334, 89990, 89996, 90000, 99996, 100000, 105000}

Inferences == {[value |-> v] : v \in ModelOutputs} \cup {Raised}

MatchInfos == {[gameDuration |-> d] : d \in {0, 1800}}

\* the participant handle_player_performance found for the player's puuid
HandlerParticipants ==
    [puuid : {"p1"}, individualPosition : Positions,
     data : ParticipantStates \ {"nopuuid"}]

BatchParticipants ==
    [puuid : Puuids, individualPosition : {"TOP", "JUNGLE"}, data : ParticipantStates]

BatchInferences == {[value |-> Points(72)], Raised}

BatchInputs ==
    UNION {[participants : [1..n -> BatchParticipants],
            inferences : [1..n -> BatchInferences]] : n \in 0..MaxBatch}

\* stores that differ in the artifact of one role
BatchStores ==
    {[artifacts |-> [r \in RoleSet |-> IF r = "JUNGLE" THEN a ELSE "ok"],
      metadata |-> "ok"] : a \in {"ok", "absent"}}

-----------------------------------------------------------------------------
(* src/lambda_handler.py: one process, its invocations one after another *)

\* lines 73-74: init_resources runs while predictor is None; it raises
\* before predictor is assigned when a client cannot be created (initOk
\* false), and the exception leaves handler.
HandlerEnter ==
    /\ h_pc = "idle"
    /\ IF predictor = None
       THEN \E initOk \in BOOLEAN :
              IF initOk
              THEN predictor' = PerformancePredictor(model_store) /\ h_pc' = "request"
              ELSE predictor' = predictor /\ h_pc' = "idle"
       ELSE predictor' = predictor /\ h_pc' = "request"
    /\ call' = None
    /\ UNCHANGED <<model_store, handlerVars, decideVars, pipelineVars>>

\* line 215: the loop over the player's matches calls
\* predictor.predict_performance for the match at hand
HandlerPredict ==
    /\ h_pc = "request"
    /\ \E participant \in HandlerParticipants, match_info \in MatchInfos,
          inference \in Inferences, up \in BOOLEAN :
         \E r \in {predict_performance(predictor, participant, match_info, inference, up)} :
            /\ call' = [op |-> "predict_performance",
                        participant |-> participant, match_info |-> match_info,
                        inference |-> inference,
                        out |-> r.out, trace |-> r.trace,
                        participant_after |-> r.participant]
            /\ predictor' = r.self
            /\ h_pc' = "predicted"
    /\ UNCHANGED <<model_store, handlerVars, decideVars, pipelineVars>>

\* lines 217-234: the prediction is used and the loop goes to the next match
HandlerNextMatch ==
    /\ h_pc = "predicted"
    /\ h_pc' = "request"
    /\ call' = None
    /\ UNCHANGED <<predictor, model_store, handlerVars, decideVars, pipelineVars>>

\* the invocation returns (or raises into the Lambda runtime)
HandlerReturn ==
    /\ h_pc = "request"
    /\ h_pc' = "idle"
    /\ UNCHANGED <<predictor, model_store, call, handlerVars, decideVars, pipelineVars>>

InitRegistry ==
    /\ HandlerIdle
    /\ d_raw = None /\ d_existing = None /\ d_out = None
    /\ p_features = <<>> /\ p_out = None
    /\ predictor = None /\ h_pc = "idle" /\ call = None
    /\ model_store \in ModelStores

NextRegistry ==
    \/ HandlerEnter
    \/ HandlerPredict
    \/ HandlerNextMatch
    \/ HandlerReturn

SpecRegistry == InitRegistry /\ [][NextRegistry]_vars

-----------------------------------------------------------------------------
(* predict_batch on a predictor constructed from a store *)

Construct ==
    /\ predictor = None
    /\ predictor' = PerformancePredictor(model_store)
    /\ UNCHANGED <<model_store, h_pc, call, handlerVars, decideVars, pipelineVars>>

PredictBatch ==
    /\ predictor # None
    /\ call = None
    /\ \E input \in BatchInputs, match_info \in MatchInfos, up \in BOOLEAN :
         \E r \in {predict_batch(predictor, input.participants, match_info,
                                 input.inferences, up)} :
            /\ call' = [op |-> "predict_batch",
                        participants |-> input.participants,
                        inferences |-> input.inferences,
                        match_info |-> match_info,
                        out |-> r.out]
            /\ predictor' = r.self
    /\ UNCHANGED <<model_store, h_pc, handlerVars, decideVars, pipelineVars>>

InitBatch ==
    /\ HandlerIdle
    /\ d_raw = None /\ d_existing = None /\ d_out = None
    /\ p_features = <<>> /\ p_out = None
    /\ predictor = None /\ h_pc = "idle" /\ call = None
    /\ model_store \in BatchStores

NextBatch ==
    \/ Construct
    \/ PredictBatch

SpecBatch == InitBatch /\ [][NextBatch]_vars

\* One process in which the handler's invocations and calls of predict_batch
\* follow one another.
NextProcess ==
    \/ HandlerEnter
    \/ HandlerPredict
    \/ HandlerNextMatch
    \/ HandlerReturn
    \/ h_pc = "idle" /\ PredictBatch

SpecProcess == InitBatch /\ [][NextProcess]_vars

-----------------------------------------------------------------------------
(* _score_to_grade on its own, over pairs of clipped scores *)

GradeThresholds == {50, 60, 70, 80, 90}

\* 0, 100 and the scores at, just below and just above each threshold
GradeScores ==
    {0, Points(100)}
        \cup {Points(t) + d : t \in GradeThresholds, d \in {0 - 10, 0 - 1, 0, 1}}

InitGrade ==
    /\ HandlerIdle
    /\ d_raw = None /\ d_existing = None /\ d_out = None
    /\ p_features = <<>> /\ p_out = None
    /\ predictor = None /\ model_store = None /\ h_pc = "idle"
    /\ call \in [op : {"_score_to_grade"}, a : GradeScores, b : GradeScores, out : {None}]

Grade ==
    /\ call.out = None
    /\ call' = [call EXCEPT !.out = [a |-> _score_to_grade(call.a),
                                      b |-> _score_to_grade(call.b)]]
    /\ UNCHANGED <<predictor, model_store, h_pc, handlerVars, decideVars, pipelineVars>>

NextGrade == Grade

SpecGrade == InitGrade /\ [][NextGrade]_vars

-----------------------------------------------------------------------------
(* src/ml_training/train_models.py: PerformanceScoreCalculator.

   Scores are in thousandths of a point (Points).  A float that may be NaN is
   a record [nan, value]; NaN propagates through the arithmetic, np.clip and
   np.mean as it does in numpy. *)

Float(x) == [nan |-> FALSE, value |-> x]
NaN == [nan |-> TRUE, value |-> 0]

Abs(x) == IF x < 0 THEN -x ELSE x

\* x * 10^6: standard deviations are kept in millionths, the unit of the 1e-6 of line 88
Micro(x) == x * 1000000

\* np.clip on a float: NaN stays NaN
NpClip(x, lo, hi) == IF x.nan THEN NaN ELSE Float(Clip(x.value, lo, hi))

\* key_stats (lines 109-117): the weights, in tenths
key_stats ==
    [kda |-> 20, cs_per_min |-> 15, damage_per_min |-> 20, vision_per_min |-> 10,
     kill_participation |-> 15, damage_share |-> 15, time_dead_pct |-> -20]

\* _calculate_role_statistics (lines 75-93) for one role: role_data gives the
\* number n of samples of the role, and the mean and the sample standard
\* deviation (spread, meaningful when n >= 2) of each column over them.
\* pandas' std() of a single value is NaN, and NaN + 1e-6 is NaN.
_calculate_role_statistics(role_data) ==
    [stat \in role_data.columns |->
        [mean |-> role_data.mean,
         std  |-> IF role_data.n < 2 THEN NaN ELSE Float(Micro(role_data.spread) + 1)]]

\* the weighted stats of the loop of lines 120-131 that pass the test of line 121
AvailableStats(role_stats, sample) ==
    {stat \in DOMAIN key_stats : stat \in DOMAIN role_stats /\ stat \in DOMAIN sample.stats}

\* (value - mean) / std of line 127, in thousandths, for a difference d in
\* units and a std in millionths; a quotient of 10 or more in size is reported
\* as 10, which line 130 clips in the same way
ZScore(d, std) ==
    IF Abs(Micro(d)) >= 10 * std THEN (IF d < 0 THEN -Points(10) ELSE Points(10))
    ELSE Points(Micro(d) \div std) + Points(Micro(d) % std) \div std

\* lines 122-131: clip(5 + z_score, 0, 10) * abs(weight)
Normalized(role_stats, sample, stat) ==
    LET value == sample.stats[stat]
        mean  == role_stats[stat].mean
        std   == role_stats[stat].std
    IN  IF std.nan THEN NaN
        ELSE LET z_score == ZScore(value - mean, std.value)
             IN  Float((Clip(Points(5) + z_score, 0, Points(10)) * Abs(key_stats[stat])) \div 10)

RECURSIVE SumValues(_, _, _)
SumValues(role_stats, sample, stats) ==
    IF stats = {} THEN 0
    ELSE LET stat == CHOOSE s \in stats : TRUE
         IN  Normalized(role_stats, sample, stat).value
                + SumValues(role_stats, sample, stats \ {stat})

\* np.mean(stat_scores) of line 133
NpMean(role_stats, sample, stats) ==
    IF \E stat \in stats : Normalized(role_stats, sample, stat).nan THEN NaN
    ELSE Float(SumValues(role_stats, sample, stats) \div Cardinality(stats))

\* calculate_performance_score (lines 95-156); the components are returned
\* with the score
calculate_performance_score(role_stats, sample) ==
    LET win_score == IF sample.win THEN Points(25) ELSE Points(5)
        available == AvailableStats(role_stats, sample)
        averaged  == IF available # {} THEN NpMean(role_stats, sample, available)
                     ELSE Float(Points(25))
        stat_score == IF averaged.nan THEN NaN
                      ELSE NpClip(Float(averaged.value * 5), 0, Points(50))
        objectives == Min(sample.turrets * 2, 5) + Min(sample.dragons * 2, 5)
                        + Min(sample.barons * 5, 5)
        solo  == IF sample.solo_kills >= 2 THEN 3 ELSE 0
        multi == IF sample.multikills >= 1 THEN 2 ELSE 0
        impact_score == Points(Min(objectives + solo + multi, 20))
        performance_score ==
            IF stat_score.nan THEN NaN
            ELSE Float(win_score + stat_score.value + impact_score)
    IN  [win_score |-> win_score, stat_score |-> stat_score,
         impact_score |-> impact_score,
         score |-> NpClip(performance_score, 0, Points(100))]

(* The samples and role data the calculator is studied on. *)

StatValues == {0, 12, 24}
SampleStats == UNION {[S -> StatValues] : S \in SUBSET (DOMAIN key_stats)}

ImpactCounts ==
    {[turrets |-> 0, dragons |-> 0, barons |-> 0, solo_kills |-> 0, multikills |-> 0],
     [turrets |-> 1, dragons |-> 0, barons |-> 0, solo_kills |-> 2, multikills |-> 0],
     [turrets |-> 3, dragons |-> 3, barons |-> 1, solo_kills |-> 2, multikills |-> 1]}

TrainingSample(win, stats, impact) ==
    [win |-> win, stats |-> stats, turrets |-> impact.turrets, dragons |-> impact.dragons,
     barons |-> impact.barons, solo_kills |-> impact.solo_kills,
     multikills |-> impact.multikills]

ScoreSamples ==
    {TrainingSample(win, stats, impact) :
        win \in BOOLEAN, stats \in SampleStats, impact \in ImpactCounts}

\* a role with one sample, with two equal samples, and with many samples of
\* mean 12 and standard deviation 2
RoleDatas ==
    {[n |-> 1, mean |-> 12, spread |-> 0, columns |-> DOMAIN key_stats],
     [n |-> 2, mean |-> 12, spread |-> 0, columns |-> DOMAIN key_stats],
     [n |-> 40, mean |-> 12, spread |-> 2, columns |-> DOMAIN key_stats]}

\* the sample is one of the role's samples: where these are all equal, it is
\* their mean
InTrainingSet(role_data, sample) ==
    (role_data.n = 1 \/ role_data.spread = 0)
        => \A stat \in DOMAIN sample.stats : sample.stats[stat] = role_data.mean

InitScore ==
    /\ HandlerIdle
    /\ d_raw = None /\ d_existing = None /\ d_out = None
    /\ p_features = <<>> /\ p_out = None
    /\ predictor = None /\ model_store = None /\ h_pc = "idle"
    /\ call \in {c \in [op : {"calculate_performance_score"}, role_data : RoleDatas,
                        sample : ScoreSamples, out : {None}] :
                    InTrainingSet(c.role_data, c.sample)}

\* the sample with the largest time_dead_pct of the study in place of its own
MoreTimeDead(sample) ==
    IF "time_dead_pct" \in DOMAIN sample.stats
    THEN [sample EXCEPT !.stats["time_dead_pct"] = Newest(StatValues)]
    ELSE sample

\* the sample is scored as it is, with its win flag flipped, and with more
\* time spent dead
CalculateScore ==
    /\ call.out = None
    /\ \E role_stats \in {_calculate_role_statistics(call.role_data)} :
          call' = [call EXCEPT !.out =
              [role_stats |-> role_stats,
               scored  |-> calculate_performance_score(role_stats, call.sample),
               flipped |-> calculate_performance_score(role_stats,
                              [call.sample EXCEPT !.win = ~call.sample.win]),
               deader  |-> calculate_performance_score(role_stats,
                              MoreTimeDead(call.sample))]]
    /\ UNCHANGED <<predictor, model_store, h_pc, handlerVars, decideVars, pipelineVars>>

NextScore == CalculateScore

SpecScore == InitScore /\ [][NextScore]_vars

-----------------------------------------------------------------------------
(* Feature extraction at inference (performance_predictor.py, lines 94-171)
   and at training (data_collection.py, lines 120-207).

   A participant is [individualPosition, stats, hasChallenges, challenges]:
   stats maps the top-level keys that are present to their values,
   hasChallenges tells whether the key 'challenges' is present and challenges
   maps the keys present in it.  Quotients are in thousandths. *)

\* train_models.py lines 28-65
FEATURE_COLUMNS ==
    <<"kills", "deaths", "assists", "kda",
      "cs_per_min", "jungle_cs", "gold_per_min",
      "damage_per_min", "damage_taken_per_min", "damage_mitigated", "damage_share",
      "vision_per_min", "wards_placed", "wards_killed", "control_wards",
      "turret_plates", "turrets", "dragons", "barons",
      "cs_at_10", "cs_advantage", "gold_advantage",
      "kill_participation", "solo_kills", "multikills",
      "cc_time", "healing", "shielding",
      "time_dead_pct", "longest_living",
      "skillshots_hit", "skillshots_dodged",
      "first_blood", "first_tower",
      "game_duration">>

\* dict.get(key, default)
Get(d, key, default) == IF key \in DOMAIN d THEN d[key] ELSE default

\* a / b in thousandths
Quotient(a, b) == (a * 1000) \div b

\* value / duration_mins with duration_mins = gameDuration / 60
PerMinute(value, gameDuration) == (value * 60 * 1000) \div gameDuration

\* a or b on numbers
Or(a, b) == IF a # 0 THEN a ELSE b

\* the keys both extractors read as participant[key]
CommonRequiredFields ==
    {"kills", "deaths", "assists", "totalMinionsKilled", "goldEarned",
     "totalDamageDealtToChampions", "totalDamageTaken", "damageSelfMitigated",
     "visionScore", "wardsPlaced", "wardsKilled",
     "doubleKills", "tripleKills", "quadraKills", "pentaKills",
     "timeCCingOthers", "totalHeal", "totalDamageShieldedOnTeammates",
     "totalTimeSpentDead", "longestTimeSpentLiving"}

\* the mutated reading: turretKills read as participant['turretKills']
PredictorRequiredFields_turrets == CommonRequiredFields \cup {"turretKills"}

\* performance_predictor.py: the keys read as participant[key] (lines 109-161)
PredictorRequiredFields == CommonRequiredFields

\* the features both extractors compute in the same way, from the stats s,
\* the challenges c and the duration in seconds
SharedFeatures(s, c, gameDuration) ==
    [kills |-> s["kills"],
     deaths |-> s["deaths"],
     assists |-> s["assists"],
     cs_per_min |-> PerMinute(s["totalMinionsKilled"], gameDuration),
     jungle_cs |-> Get(s, "neutralMinionsKilled", 0),
     gold_per_min |-> PerMinute(s["goldEarned"], gameDuration),
     damage_per_min |-> PerMinute(s["totalDamageDealtToChampions"], gameDuration),
     damage_taken_per_min |-> PerMinute(s["totalDamageTaken"], gameDuration),
     damage_mitigated |-> s["damageSelfMitigated"],
     damage_share |-> Get(c, "teamDamagePercentage", 0),
     vision_per_min |-> PerMinute(s["visionScore"], gameDuration),
     wards_placed |-> s["wardsPlaced"],
     wards_killed |-> s["wardsKilled"],
     control_wards |-> Get(c, "controlWardsPlaced", 0),
     turret_plates |-> Get(c, "turretPlatesTaken", 0),
     turrets |-> Get(s, "turretKills", 0),
     dragons |-> Get(s, "dragonKills", 0),
     barons |-> Get(s, "baronKills", 0),
     cs_at_10 |-> Or(Get(c, "laneMinionsFirst10Minutes", 0),
                     Get(c, "jungleCsBefore10Minutes", 0)),
     cs_advantage |-> Get(c, "maxCsAdvantageOnLaneOpponent", 0),
     gold_advantage |->
         IF Get(c, "earlyLaningPhaseGoldExpAdvantage", 0) > 0 THEN 1 ELSE 0,
     kill_participation |-> Get(c, "killParticipation", 0),
     solo_kills |-> Get(c, "soloKills", 0),
     multikills |-> s["doubleKills"] + s["tripleKills"] * 2
                      + s["quadraKills"] * 3 + s["pentaKills"] * 4,
     cc_time |-> s["timeCCingOthers"],
     healing |-> s["totalHeal"],
     shielding |-> s["totalDamageShieldedOnTeammates"],
     time_dead_pct |-> Quotient(s["totalTimeSpentDead"], gameDuration),
     longest_living |-> s["longestTimeSpentLiving"],
     skillshots_hit |-> Get(c, "skillshotsHit", 0),
     skillshots_dodged |-> Get(c, "skillshotsDodged", 0),
     first_blood |-> Get(s, "firstBloodKill", 0),
     first_tower |-> Get(s, "firstTowerKill", 0),
     game_duration |-> Quotient(gameDuration, 60)]

\* f extended with the field name |-> value
WithField(f, name, value) ==
    [k \in DOMAIN f \cup {name} |-> IF k = name THEN value ELSE f[k]]

\* PerformancePredictor.extract_features (performance_predictor.py lines
\* 94-171): Raised for the ZeroDivisionError of line 105/116 and the KeyError
\* of a missing participant[key]; participant.get('challenges', {}) at line 106
PredictorExtractFeatures(participant, match_info) ==
    IF \/ match_info.gameDuration = 0
       \/ ~(PredictorRequiredFields \subseteq DOMAIN participant.stats)
    THEN Raised
    ELSE LET s == participant.stats
             c == participant.challenges
         IN  [features |->
                WithField(SharedFeatures(s, c, match_info.gameDuration), "kda",
                    Quotient(s["kills"] + s["assists"], Max(s["deaths"], 1)))]

\* g laid over f
Merge(f, g) == [k \in DOMAIN f \cup DOMAIN g |-> IF k \in DOMAIN g THEN g[k] ELSE f[k]]

\* data_collection.py: the keys read as participant[key] (lines 132-197);
\* participant['challenges'] is one of them
TrainingRequiredFields == CommonRequiredFields \cup {"turretKills"}

\* the training sample of lines 132-204 for one participant; the identity
\* keys (match_id, puuid, champion) are left out
TrainingSampleOf(participant, match_info) ==
    LET s == participant.stats
        c == participant.challenges
    IN  Merge(SharedFeatures(s, c, match_info.gameDuration),
              [role |-> participant.individualPosition,
               win |-> IF participant.win THEN 1 ELSE 0,
               kda |-> Points(s["kills"]) + Quotient(s["assists"], Max(s["deaths"], 1)),
               cs |-> s["totalMinionsKilled"],
               gold |-> s["goldEarned"],
               damage_dealt |-> s["totalDamageDealtToChampions"],
               damage_taken |-> s["totalDamageTaken"],
               vision_score |-> s["visionScore"],
               time_dead |-> s["totalTimeSpentDead"]])

\* RiotDataCollector.extract_participant_data (data_collection.py lines
\* 120-207) for a match [info |-> [gameDuration, gameMode, participants]]:
\* the list of samples, or Raised for a KeyError
extract_participant_data(match) ==
    LET match_info == match.info
        valid == SelectSeq(match_info.participants,
                    LAMBDA p : ~(p.individualPosition = "Invalid"
                                  \/ p.individualPosition = ""))
    IN  IF match_info.gameDuration < 300 THEN [samples |-> <<>>]
        ELSE IF match_info.gameMode # "CLASSIC" THEN [samples |-> <<>>]
        ELSE IF \E i \in DOMAIN valid :
                    \/ ~(TrainingRequiredFields \subseteq DOMAIN valid[i].stats)
                    \/ ~valid[i].hasChallenges
        THEN Raised
        ELSE [samples |-> [i \in DOMAIN valid |-> TrainingSampleOf(valid[i], match_info)]]

(* The participant records both extractors are studied on. *)

OptionalFields ==
    {"neutralMinionsKilled", "turretKills", "dragonKills", "baronKills",
     "firstBloodKill", "firstTowerKill"}

ChallengeFields ==
    {"teamDamagePercentage", "controlWardsPlaced", "turretPlatesTaken",
     "laneMinionsFirst10Minutes", "jungleCsBefore10Minutes",
     "maxCsAdvantageOnLaneOpponent", "earlyLaningPhaseGoldExpAdvantage",
     "killParticipation", "soloKills", "skillshotsHit", "skillshotsDodged"}

\* two records of a match: a laner's, and a jungler's with no lane minions
StatProfiles ==
    {[kind |-> "laner"], [kind |-> "jungler"]}

StatsOf(profile, kills, deaths, assists) ==
    [f \in CommonRequiredFields \cup OptionalFields |->
        CASE f = "kills" -> kills
          [] f = "deaths" -> deaths
          [] f = "assists" -> assists
          [] f = "totalMinionsKilled" -> IF profile.kind = "laner" THEN 180 ELSE 20
          [] f = "neutralMinionsKilled" -> IF profile.kind = "laner" THEN 4 ELSE 120
          [] f = "goldEarned" -> 9000
          [] f = "totalTimeSpentDead" -> 90
          [] f \in {"firstBloodKill", "firstTowerKill"} -> 1
          [] OTHER -> 7]

ChallengesOf(profile) ==
    [f \in ChallengeFields |->
        CASE f = "laneMinionsFirst10Minutes" -> IF profile.kind = "laner" THEN 70 ELSE 0
          [] f = "jungleCsBefore10Minutes" -> IF profile.kind = "laner" THEN 0 ELSE 55
          [] f = "earlyLaningPhaseGoldExpAdvantage" -> IF profile.kind = "laner" THEN 1 ELSE 0
          [] OTHER -> 3]

\* f without the keys of gone
Without(f, gone) == [k \in DOMAIN f \ gone |-> f[k]]

\* no key missing, one key missing, every key of opt missing
MissingSets(keys, opt) == {{}, opt} \cup {{k} : k \in keys}

MaxKda == 2       \* largest kills, deaths and assists of a record

KdaCounts == 0 .. MaxKda

\* the participant records: complete, or with keys missing from the record
\* or from its challenges, or without challenges
FeatureParticipants ==
    {[individualPosition |-> position, win |-> TRUE,
      stats |-> Without(StatsOf(profile, kills, deaths, assists), gone),
      hasChallenges |-> TRUE, challenges |-> ChallengesOf(profile)] :
        position \in {"TOP", "Invalid"}, profile \in StatProfiles,
        kills \in KdaCounts, deaths \in KdaCounts, assists \in KdaCounts,
        gone \in MissingSets(CommonRequiredFields \cup OptionalFields, OptionalFields)}
    \cup
    {[individualPosition |-> "TOP", win |-> FALSE,
      stats |-> StatsOf(profile, kills, 2, 1),
      hasChallenges |-> has,
      challenges |-> IF has THEN Without(ChallengesOf(profile), gone) ELSE <<>>] :
        profile \in StatProfiles, kills \in KdaCounts, has \in BOOLEAN,
        gone \in MissingSets(ChallengeFields, ChallengeFields)}

FeatureMatchInfos ==
    {[gameDuration |-> 0, gameMode |-> "CLASSIC"],
     [gameDuration |-> 240, gameMode |-> "CLASSIC"],
     [gameDuration |-> 1800, gameMode |-> "CLASSIC"],
     [gameDuration |-> 1800, gameMode |-> "ARAM"]}

InitFeatures ==
    /\ HandlerIdle
    /\ d_raw = None /\ d_existing = None /\ d_out = None
    /\ p_features = <<>> /\ p_out = None
    /\ predictor = None /\ model_store = None /\ h_pc = "idle"
    /\ call \in [op : {"extract_features"}, participant : FeatureParticipants,
                 match_info : FeatureMatchInfos, out : {None}]

\* the record goes through the inference extractor and, as the one
\* participant of its match, through the training extractor
ExtractBoth ==
    /\ call.op = "extract_features" /\ call.out = None
    /\ call' = [call EXCEPT !.out =
          [inference |-> PredictorExtractFeatures(call.participant, call.match_info),
           training  |-> extract_participant_data(
                            [info |-> [gameDuration |-> call.match_info.gameDuration,
                                       gameMode |-> call.match_info.gameMode,
                                       participants |-> <<call.participant>>]])]]
    /\ UNCHANGED <<predictor, model_store, h_pc, handlerVars, decideVars, pipelineVars>>

NextFeatures == ExtractBoth

SpecFeatures == InitFeatures /\ [][NextFeatures]_vars

-----------------------------------------------------------------------------
(* src/ml_training/train_models.py: main (lines 289-339) and save_models
   (lines 260-286).

   call is the run: pc its position, data and models the local variables of
   main of these names, role_data what prepare_training_data returned (the
   roles in the order of their first sample, each with its number of
   samples), i the number of roles the loop has taken, saved what
   save_models wrote. *)

MinRoleSamples == 100    \* data['samples'] < 100

MaxTrainRoles == 2       \* most roles present in a training input

RoleCounts == {1, MinRoleSamples - 1, MinRoleSamples, MinRoleSamples + 50}

\* the inputs: at least one role present, each with its samples
TrainingInputs ==
    {[num_matches |-> n, roles |-> rs] :
        n \in {1, 500},
        rs \in UNION {{s \in [1..k -> [role : RoleSet, samples : RoleCounts]] :
                          \A a, b \in 1..k : a # b => s[a].role # s[b].role} :
                      k \in 1..MaxTrainRoles}}

\* prepare_training_data (lines 163-200): one entry per role of the samples
prepare_training_data(input) ==
    [j \in DOMAIN input.roles |->
        [role |-> input.roles[j].role,
         data |-> [X |-> input.roles[j].samples, y |-> input.roles[j].samples,
                   samples |-> input.roles[j].samples]]]

InitTrain ==
    /\ HandlerIdle
    /\ d_raw = None /\ d_existing = None /\ d_out = None
    /\ p_features = <<>> /\ p_out = None
    /\ predictor = None /\ model_store = None /\ h_pc = "idle"
    /\ call \in [op : {"main"}, pc : {"load"}, input : TrainingInputs,
                 data : {None}, role_data : {<<>>}, i : {0}, models : {{}},
                 saved : {None}]

\* lines 297-305: data = json.load(f); prepare_training_data(samples)
LoadAndPrepare ==
    /\ call.op = "main" /\ call.pc = "load"
    /\ call' = [call EXCEPT !.pc = "loop",
                            !.data = [samples |-> call.input.roles,
                                      num_matches |-> call.input.num_matches],
                            !.role_data = prepare_training_data(call.input)]
    /\ UNCHANGED <<predictor, model_store, h_pc, handlerVars, decideVars, pipelineVars>>

\* lines 311-323, one turn of the loop: for role, data in role_data.items()
\* binds data to the role's entry
TrainRole ==
    /\ call.op = "main" /\ call.pc = "loop" /\ call.i < Len(call.role_data)
    /\ LET entry == call.role_data[call.i + 1]
       IN  call' = [call EXCEPT !.i = @ + 1,
                                !.data = entry.data,
                                !.models = IF entry.data.samples < MinRoleSamples THEN @
                                           ELSE @ \cup {entry.role}]
    /\ UNCHANGED <<predictor, model_store, h_pc, handlerVars, decideVars, pipelineVars>>

\* save_models (lines 260-286): a model file per role, model_metadata.json
\* and features.json
save_models(models, metadata) ==
    [model_files |-> models, metadata |-> metadata, features |-> FEATURE_COLUMNS]

\* lines 325-336, after the loop: the metadata is built from data, the name
\* the loop has bound, and save_models is called; data['num_matches'] raises
\* KeyError when data holds no such key
CreateMetadataAndSave ==
    /\ call.op = "main" /\ call.pc = "loop" /\ call.i = Len(call.role_data)
    /\ IF "num_matches" \in DOMAIN call.data
       THEN call' = [call EXCEPT !.pc = "saved",
                        !.saved = save_models(call.models,
                                     [num_matches |-> call.data.num_matches,
                                      roles |-> call.models])]
       ELSE call' = [call EXCEPT !.pc = "raised"]
    /\ UNCHANGED <<predictor, model_store, h_pc, handlerVars, decideVars, pipelineVars>>

NextTrain == LoadAndPrepare \/ TrainRole \/ CreateMetadataAndSave

\* main runs to its end or to its exception
SpecTrain == InitTrain /\ [][NextTrain]_vars /\ WF_vars(NextTrain)

-----------------------------------------------------------------------------
(* src/ml_training/data_collection.py: RiotDataCollector._rate_limit (lines
   34-51) and _make_request (lines 53-74).

   Time is counted in ticks of 0.05 s, the delay of line 51.  call is the
   collector: now the clock, request_timestamps the list of this name,
   through the times at which a request left _rate_limit during the last
   120 s, retry whether a 429 answer is being retried. *)

Ticks(seconds) == seconds * 20

BufferLimit == 95       \* len(self.request_timestamps) >= 95

MaxClock == 2420        \* the clock stops after 121 s

\* the time a caller lets pass between two requests: none, or 115 s
IdleTimes == {0, Ticks(115)}

\* the answers of the API that _make_request tells apart
StatusCodes == {200, 429, 404}

\* _rate_limit (lines 34-51) entered at time now: the list it leaves and the
\* time it returns; the timestamp appended at line 50 is the time of entry
_rate_limit(request_timestamps, now) ==
    LET recent == SelectSeq(request_timestamps, LAMBDA ts : now - ts < Ticks(120))
        sleep_time == IF Len(recent) >= BufferLimit
                      THEN Ticks(120) - (now - recent[1]) ELSE 0
        kept == IF Len(recent) >= BufferLimit /\ sleep_time > 0 THEN <<>> ELSE recent
    IN  [request_timestamps |-> Append(kept, now),
         now |-> now + Max(sleep_time, 0) + 1]

InitRate ==
    /\ HandlerIdle
    /\ d_raw = None /\ d_existing = None /\ d_out = None
    /\ p_features = <<>> /\ p_out = None
    /\ predictor = None /\ model_store = None /\ h_pc = "idle"
    /\ call = [op |-> "_make_request", now |-> 0, request_timestamps |-> <<>>,
               through |-> <<>>, retry |-> FALSE]

\* _make_request (lines 53-74), called idle ticks after the last one
\* returned: the request leaves _rate_limit at the time this returns; a 429
\* answer is followed by a sleep of 120 s and by the call of line 65
MakeRequest ==
    /\ call.op = "_make_request"
    /\ \E idle \in IdleTimes, status \in StatusCodes :
        /\ call.retry => idle = 0
        /\ LET r == _rate_limit(call.request_timestamps, call.now + idle)
               after == IF status = 429 THEN r.now + Ticks(120) ELSE r.now
           IN  /\ after <= MaxClock
               /\ call' = [call EXCEPT
                     !.now = after,
                     !.request_timestamps = r.request_timestamps,
                     !.through = Append(SelectSeq(@, LAMBDA t : r.now - t < Ticks(120)),
                                        r.now),
                     !.retry = (status = 429)]
    /\ UNCHANGED <<predictor, model_store, h_pc, handlerVars, decideVars, pipelineVars>>

NextRate == MakeRequest

SpecRate == InitRate /\ [][NextRate]_vars

-----------------------------------------------------------------------------
(* src/ml_training/data_collection.py: RiotDataCollector.collect_training_data
   (lines 210-266).

   call is the run: pc its position, collected_matches, training_samples and
   puuid_queue the local variables of these names (training_samples keeps,
   for each sample, the match that it came from), match_ids what is left of
   the list the for loop of line 237 goes through, seeds the number of seed
   players the queue started with. *)

QueueLimit == 200        \* len(puuid_queue) < 200

MaxCollect == 2          \* largest num_matches asked for

CollectMatchIds == 1 .. MaxCollect

\* the seed lists: none (the challenger list is fetched), two players, one
\* player short of the queue limit, more players than the queue limit
SeedLists ==
    {<<>>, <<1, 2>>, <<2, 1>>, [i \in 1..(QueueLimit - 1) |-> i],
     [i \in 1..(QueueLimit + 2) |-> i]}

\* get_challenger_players (lines 76-90): the players found, none on failure
ChallengerLists == {<<>>, <<1, 2>>}

\* get_match_history (lines 92-103): the ids of a player's matches, [] when
\* the request fails
HistoryLists ==
    {<<>>} \cup {<<a>> : a \in CollectMatchIds}
           \cup {<<a, b>> : a \in CollectMatchIds, b \in CollectMatchIds}

\* the puuids of the samples extract_participant_data draws from a match: a
\* player of the seeds and players outside them
SamplePlayers(match_id) ==
    IF match_id % 2 = 1 THEN <<1, QueueLimit + 101, QueueLimit + 102>>
    ELSE <<QueueLimit + 102, QueueLimit + 100 + match_id>>

\* what get_match_details and extract_participant_data give for a match: no
\* match data, no samples (a short or non-CLASSIC game), samples, or the
\* KeyError of a malformed record
DetailOutcomes == {"none", "empty", "samples", "raises"}

\* line 238 with the test left out
AlreadyCollected_never(match_id, collected_matches) == FALSE

\* line 238: if match_id in collected_matches
AlreadyCollected(match_id, collected_matches) == match_id \in collected_matches

\* lines 257-259, one sample: its player joins the queue when not in it and
\* the queue is short of the limit
AppendPlayer(puuid_queue, puuid) ==
    IF puuid \notin Range(puuid_queue) /\ Len(puuid_queue) < QueueLimit
    THEN Append(puuid_queue, puuid) ELSE puuid_queue

\* lines 257-259: the players of the samples are appended in turn
RECURSIVE AppendPlayers(_, _)
AppendPlayers(puuid_queue, players) ==
    IF players = <<>> THEN puuid_queue
    ELSE CHOOSE queue \in {AppendPlayers(q, Tail(players)) :
                              q \in {AppendPlayer(puuid_queue, Head(players))}} : TRUE

CollectUnchanged ==
    UNCHANGED <<predictor, model_store, h_pc, handlerVars, decideVars, pipelineVars>>

InitCollect ==
    /\ HandlerIdle
    /\ d_raw = None /\ d_existing = None /\ d_out = None
    /\ p_features = <<>> /\ p_out = None
    /\ predictor = None /\ model_store = None /\ h_pc = "idle"
    /\ call \in [op : {"collect_training_data"}, pc : {"start"},
                 num_matches : 0..MaxCollect, seed_puuids : SeedLists,
                 seeds : {0}, collected_matches : {{}}, training_samples : {<<>>},
                 puuid_queue : {<<>>}, match_ids : {<<>>}]

\* lines 214-225: the seeds, fetched when none are given; no seeds, no data
StartCollect ==
    /\ call.op = "collect_training_data" /\ call.pc = "start"
    /\ \E fetched \in ChallengerLists :
        LET seed_puuids == IF call.seed_puuids = <<>> THEN fetched ELSE call.seed_puuids
        IN  call' = [call EXCEPT !.pc = IF seed_puuids = <<>> THEN "done" ELSE "while",
                                 !.seeds = Len(seed_puuids),
                                 !.puuid_queue = seed_puuids]
    /\ CollectUnchanged

\* lines 227-234: the test of the while loop, the next player and the
\* history of that player
NextPlayer ==
    /\ call.op = "collect_training_data" /\ call.pc = "while"
    /\ IF Cardinality(call.collected_matches) < call.num_matches /\ call.puuid_queue # <<>>
       THEN \E history \in HistoryLists :
               call' = [call EXCEPT !.pc = "for",
                                    !.puuid_queue = Tail(@),
                                    !.match_ids = history]
       ELSE call' = [call EXCEPT !.pc = "done"]
    /\ CollectUnchanged

\* lines 237-261: one turn of the for loop
NextMatch ==
    /\ call.op = "collect_training_data" /\ call.pc = "for"
    /\ IF call.match_ids = <<>>
       THEN call' = [call EXCEPT !.pc = "while"]
       ELSE LET match_id == Head(call.match_ids)
            IN  IF AlreadyCollected(match_id, call.collected_matches)
                THEN call' = [call EXCEPT !.match_ids = Tail(@)]
                ELSE IF Cardinality(call.collected_matches) >= call.num_matches
                THEN call' = [call EXCEPT !.pc = "while", !.match_ids = <<>>]
                ELSE \E outcome \in DetailOutcomes :
                        IF outcome = "raises"
                        THEN call' = [call EXCEPT !.pc = "raised"]
                        ELSE IF outcome # "samples"
                        THEN call' = [call EXCEPT !.match_ids = Tail(@)]
                        ELSE \E queue \in {AppendPlayers(call.puuid_queue,
                                                         SamplePlayers(match_id))} :
                                call' = [call EXCEPT
                                    !.match_ids = Tail(@),
                                    !.training_samples =
                                        @ \o [i \in DOMAIN SamplePlayers(match_id) |-> match_id],
                                    !.collected_matches = @ \cup {match_id},
                                    !.puuid_queue = queue]
    /\ CollectUnchanged

NextCollect == StartCollect \/ NextPlayer \/ NextMatch

\* every request returns, so the run goes on until it ends
SpecCollect == InitCollect /\ [][NextCollect]_vars /\ WF_vars(NextCollect)

-----------------------------------------------------------------------------
(* Properties *)

\* the ids of a raw batch, and of its matches in which the player took part
BatchIds(raw) == {raw.matches[i].matchId : i \in DOMAIN raw.matches}
SampleIds(raw) ==
    {raw.matches[i].matchId : i \in {j \in DOMAIN raw.matches : raw.matches[j].player # "absent"}}

\* C1: should_recompute_ml answers recompute exactly when the cache record is
\* absent, or the new id set N differs from the cached set P and N has at
\* least 3 ids outside P; N = P skips with "No new matches", and N # P with
\* fewer than 3 ids outside P skips with a reason that reports the count.
C1_DecisionExact ==
    d_out # None =>
        LET N == BatchIds(d_raw)
            absent == d_existing = None
            P == IF absent THEN {} ELSE Range(d_existing.processed_match_ids)
            count == Cardinality(N \ P)
        IN /\ d_out.recompute = (absent \/ (N # P /\ count >= 3))
           /\ (~absent /\ N = P => d_out = [recompute |-> FALSE, reason |-> "No new matches"])
           /\ (~absent /\ N # P /\ count < 3 =>
                  d_out = [recompute |-> FALSE,
                           reason |-> "Only " \o ToString(count)
                                          \o " new matches - using cache"])

\* N a proper subset of P: skipped, the reason reporting the count 0
C1_Witness ==
    /\ d_out = [recompute |-> FALSE, reason |-> "Only 0 new matches - using cache"]
    /\ d_existing # None
    /\ BatchIds(d_raw) # Range(d_existing.processed_match_ids)
    /\ BatchIds(d_raw) \subseteq Range(d_existing.processed_match_ids)

\* what one run's record says about its samples, in every place that says it
ConsistentRecord(rec) ==
    /\ rec.clustering.cluster_labels = rec.processed_match_ids
    /\ rec.num_matches_analyzed = Len(rec.processed_match_ids)
    /\ rec.statistics.total_games = Len(rec.processed_match_ids)
    /\ rec.linear_regression.n_predictions = Len(rec.processed_match_ids)

\* C2: whenever a cache record exists, its processed_match_ids are exactly
\* the match ids of the samples its sub-results were computed from.
C2_IdsMatchResults == cache # None => ConsistentRecord(cache)

\* a record is stored, it left out a match of its batch in which the player
\* took no part, and a later invocation has failed inside the analysis
C2_Witness ==
    /\ cache # None
    /\ 6 \notin Range(cache.processed_match_ids)
    /\ 5 \in Range(cache.processed_match_ids)
    /\ response[1] = Response500("analysis")

\* C3: a run that skips does not write the cache record, extracts no
\* features and runs no sub-analysis, and the final analysis it stores holds
\* the cached record unchanged as ml_results, cached = true and the reason.
C3_SkipFrame ==
    [][\A r \in Runs : pc[r] = "use_cached" /\ pc'[r] = "done" =>
        /\ cache' = cache
        /\ extracted[r] = None /\ ml_results[r] = None
        /\ analysis' # analysis =>
            /\ analysis'.ml_results = cache
            /\ analysis'.cached = TRUE
            /\ analysis'.cache_reason = decision[r].reason
        /\ response'[r].statusCode = 200 =>
            /\ analysis' = [ml_results |-> existing_ml[r], bedrock_analysis |-> "text",
                            cached |-> TRUE, cache_reason |-> decision[r].reason]
            /\ response'[r] = [statusCode |-> 200, cached |-> TRUE,
                               reason |-> decision[r].reason]]_vars

\* a skipped run has returned and the final analysis holds the cache record
C3_Witness ==
    /\ response[1] = [statusCode |-> 200, cached |-> TRUE,
                      reason |-> "Only 1 new matches - using cache"]
    /\ analysis # None /\ analysis.cached /\ analysis.ml_results = cache
    /\ cache # None

\* C4: a successful recompute replaces the cache record by the record of the
\* current batch alone: its ids, its per-sample results and its counts are
\* those of the current batch's samples, whatever the previous record held.
C4_Overwrite ==
    [][\A r \in Runs : pc[r] = "recompute" /\ pc'[r] = "stored" =>
        /\ Range(cache'.processed_match_ids) = SampleIds(raw_data[r])
        /\ Range(cache'.clustering.cluster_labels) = SampleIds(raw_data[r])
        /\ cache'.num_matches_analyzed = Cardinality(SampleIds(raw_data[r]))
        /\ cache'.statistics.total_games = Cardinality(SampleIds(raw_data[r]))
        /\ cache'.recompute_reason = decision[r].reason
        /\ cache' = ml_results'[r]]_vars

\* a recompute has replaced a record, and an id of the replaced record that
\* is not in the current batch is gone
C4_Witness ==
    /\ pc[1] = "stored"
    /\ existing_ml[1] # None
    /\ cache = ml_results[1]
    /\ \E id \in Range(existing_ml[1].processed_match_ids) :
         id \notin Range(cache.processed_match_ids)

\* C5: a run that decided to recompute and extracted fewer than 3 samples
\* returns status 400 without running the pipeline and writes neither the
\* cache record nor the final analysis; with 3 or more samples the pipeline
\* runs (the run stores a record or fails with status 500).
C5_InsufficientData ==
    [][\A r \in Runs :
        pc[r] = "recompute" /\ pc'[r] # "recompute" /\ ~ExtractRaises(raw_data[r]) =>
            IF Cardinality(SampleIds(raw_data[r])) < 3
            THEN /\ response'[r].statusCode = 400
                 /\ ml_results'[r] = None
                 /\ cache' = cache /\ analysis' = analysis
            ELSE \/ pc'[r] = "stored" /\ ml_results'[r] # None
                 \/ response'[r].statusCode = 500]_vars

\* a run over exactly 2 samples has returned status 400 while a record is cached
C5_Witness ==
    /\ pc[1] = "done"
    /\ response[1] = Response400
    /\ cache # None

C7_LastWriteWins ==
    /\ [](cache # None => ConsistentRecord(cache))
    /\ [][cache' # cache =>
            \E r \in Runs :
                /\ pc[r] = "recompute" /\ pc'[r] = "stored"
                /\ cache' = ml_results'[r]
                /\ Range(cache'.processed_match_ids) = SampleIds(raw_data[r])]_vars

\* both runs read the absent record, both stored, and the record of run 1
\* was replaced by the different record of run 2
C7_Witness ==
    /\ pc[1] = "stored" /\ pc[2] = "stored"
    /\ existing_ml[1] = None /\ existing_ml[2] = None
    /\ cache = ml_results[2]
    /\ ml_results[1].processed_match_ids # ml_results[2].processed_match_ids

\* C8: a run whose read of an existing cache record failed returns an error,
\* is not treated as a first run and does not overwrite the record.
C8_ReadFailureSurfaced ==
    \A r \in Runs :
        readFailed[r] =>
            /\ pc[r] = "done"
            /\ response[r].statusCode = 500

\* C9: whatever sub-analysis fails, run_comprehensive_ml_analysis raises
\* nothing and returns all seven sub-results.
C9_FailuresCaptured ==
    p_out # None =>
        /\ p_out # Raised
        /\ \A k \in SubResultNames : k \in DOMAIN p_out

\* C10: a run that recomputes over 3 or more samples builds the record with
\* the seven sub-results, processed_match_ids and last_updated (and stores it
\* unless put_object fails); over fewer samples it builds none.
C10_ThreeSamplesSucceed ==
    [][\A r \in Runs :
        pc[r] = "recompute" /\ pc'[r] # "recompute" /\ ~ExtractRaises(raw_data[r]) =>
            IF Cardinality(SampleIds(raw_data[r])) >= 3
            THEN \/ response'[r] = Response500("put_object")
                 \/ /\ pc'[r] = "stored"
                    /\ cache' = ml_results'[r]
                    /\ SubResultNames \cup {"processed_match_ids", "last_updated"}
                          \subseteq DOMAIN cache'
            ELSE ml_results'[r] = None /\ cache' = cache]_vars

\* C11: the logistic and the tree sub-analysis return an error field exactly
\* when all win flags are identical, the nearest-neighbour sub-analysis
\* exactly when there are fewer than 5 samples; none of them raises, and
\* without an error field each returns its normal fields.
C11_PreconditionErrors ==
    p_out # None =>
        LET oneClass == Cardinality({p_features[i].win : i \in DOMAIN p_features}) < 2
            few == Len(p_features) < 5
        IN /\ p_out.logistic_regression # Raised
           /\ p_out.knn # Raised
           /\ p_out.decision_tree # Raised
           /\ ("error" \in DOMAIN p_out.logistic_regression) = oneClass
           /\ ("error" \in DOMAIN p_out.decision_tree) = oneClass
           /\ ("error" \in DOMAIN p_out.knn) = few
           /\ (~oneClass => "n_predictions" \in DOMAIN p_out.logistic_regression)
           /\ (~oneClass => "n_features" \in DOMAIN p_out.decision_tree)
           /\ (~few => "k" \in DOMAIN p_out.knn)

\* the participant's prediction fails: its role has no model, feature
\* extraction raises, or inference fails
PredictionFails(self, participant, match_info, inference) ==
    \/ participant.individualPosition \notin DOMAIN self.models
    \/ participant.data \in {"missing", "nochampion"}
    \/ match_info.gameDuration = 0
    \/ inference = Raised

\* C12: predict_batch, on participants that all have a puuid, never raises;
\* a participant whose prediction fails contributes no entry and every
\* other participant is present under its puuid.
C12_BatchNeverFails ==
    (/\ call # None /\ call.op = "predict_batch"
     /\ \A i \in DOMAIN call.participants : call.participants[i].data # "nopuuid")
    => /\ call.out # Raised
       /\ \A i \in DOMAIN call.participants :
            PredictionFails(predictor, call.participants[i], call.match_info,
                            call.inferences[i])
            \/ call.participants[i].puuid \in DOMAIN call.out
       /\ \A p \in DOMAIN call.out :
            \E i \in DOMAIN call.participants :
                /\ call.participants[i].puuid = p
                /\ ~PredictionFails(predictor, call.participants[i], call.match_info,
                                    call.inferences[i])

\* C13: predict_performance returns no result, without calling
\* extract_features or model.predict, for a participant whose role is empty,
\* unknown or without a loaded model; for a role with a loaded model it goes
\* on to extract_features, and to model.predict when the extraction succeeds.
C13_ModelUnavailable ==
    call # None /\ call.op = "predict_performance" =>
        LET role == call.participant.individualPosition
            loaded == {r \in RoleSet : model_store.artifacts[r] = "ok"}
        IN IF role \notin loaded
           THEN call.out = None /\ call.trace = <<>>
           ELSE /\ call.trace # <<>> /\ call.trace[1] = "extract_features"
                /\ (call.participant.data # "missing" /\ call.match_info.gameDuration # 0
                      => call.trace = <<"extract_features", "predict">>)

\* a participant of a role whose artifact is corrupt, with a missing field
\* and a zero duration, got no result and nothing was extracted
C13_Witness ==
    /\ call # None /\ call.op = "predict_performance"
    /\ call.participant.individualPosition = "JUNGLE"
    /\ model_store.artifacts["JUNGLE"] = "corrupt"
    /\ call.participant.data = "missing"
    /\ call.match_info.gameDuration = 0
    /\ call.out = None /\ call.trace = <<>>

\* C14: whatever artifacts are absent or corrupt, the constructed predictor
\* holds a model for exactly the other roles; a prediction for a failed role
\* returns no result, and a prediction for a loaded role is the result of
\* that role's own model.
C14_LoadDegradesPerRole ==
    predictor # None =>
        LET loaded == {r \in RoleSet : model_store.artifacts[r] = "ok"}
        IN /\ DOMAIN predictor.models = loaded
           /\ \A r \in loaded : predictor.models[r].trained_for = r
           /\ call # None /\ call.op = "predict_performance" =>
                LET role == call.participant.individualPosition
                IN /\ role \in RoleSet \ loaded => call.out = None
                   /\ (/\ role \in loaded
                       /\ model_store.metadata = "ok"
                       /\ call.participant.data = "ok"
                       /\ call.match_info.gameDuration # 0
                       /\ call.inference # Raised)
                      => /\ call.out \notin {None, Raised}
                         /\ call.out.model = role /\ call.out.role = role
                         /\ call.out.grade =
                              _score_to_grade(Clip(call.inference.value, 0, Points(100)))

\* TOP is absent, JUNGLE is corrupt, and a MIDDLE participant got a result
C14_Witness ==
    /\ predictor # None
    /\ model_store.artifacts["TOP"] = "absent"
    /\ model_store.artifacts["JUNGLE"] = "corrupt"
    /\ DOMAIN predictor.models = {"MIDDLE", "BOTTOM", "UTILITY"}
    /\ call # None /\ call.op = "predict_performance"
    /\ call.participant.individualPosition = "MIDDLE"
    /\ call.out \notin {None, Raised}
    /\ call.out.model = "MIDDLE"

Grades == {"S", "A", "B", "C", "D", "F"}

GradeRank(g) ==
    CASE g = "F" -> 0 [] g = "D" -> 1 [] g = "C" -> 2
      [] g = "B" -> 3 [] g = "A" -> 4 [] g = "S" -> 5

\* C16: the grade of a score is given by the number of thresholds 50, 60,
\* 70, 80, 90 that the score reaches (none F, ..., all five S), so 90.0 is S
\* and 89.99 is A; and of two scores the higher never has the lower grade.
C16_GradeThresholds ==
    (call # None /\ call.op = "_score_to_grade" /\ call.out # None) =>
        /\ GradeRank(call.out.a) =
             Cardinality({t \in GradeThresholds : call.a >= Points(t)})
        /\ (call.a = Points(90) => call.out.a = "S")
        /\ (call.a = Points(90) - 10 => call.out.a = "A")
        /\ (call.a <= call.b => GradeRank(call.out.a) <= GradeRank(call.out.b))

\* 89.99 got A and 90.0 got S
C16_Witness ==
    /\ call # None /\ call.op = "_score_to_grade"
    /\ call.a = 89990 /\ call.b = 90000
    /\ call.out = [a |-> "A", b |-> "S"]

\* C17: the predictor changes only by being set while it is unset, at the
\* start of an invocation; a call of predict_performance or predict_batch
\* leaves the predictor's models, feature order and metadata as they were,
\* and predict_performance leaves the participant record as it was given.
C17_RegistryReadOnly ==
    [][/\ predictor' # predictor => predictor = None /\ h_pc = "idle" /\ call' = None
       /\ (call' # call /\ call' # None) =>
            /\ predictor' = predictor
            /\ call'.op = "predict_performance" =>
                 call'.participant_after = call'.participant]_vars

\* a prediction was made by a predictor that has a model for the role
C17_Witness ==
    /\ h_pc = "predicted"
    /\ predictor # None
    /\ call # None /\ call.op = "predict_performance"
    /\ call.out \notin {None, Raised}
    /\ predictor.metadata = ModelMetadata

\* a float that is not NaN and lies in [lo, hi] points
InPoints(x, lo, hi) == ~x.nan /\ Points(lo) <= x.value /\ x.value <= Points(hi)

\* C18: every training sample's score is in [0,100] and is the sum of an
\* outcome component (25 or 5), a relative-statistics component in [0,50] and
\* an impact component in [0,20]
C18_ScoreInRange ==
    (call.op = "calculate_performance_score" /\ call.out # None) =>
        LET r == call.out.scored
        IN  /\ InPoints(r.score, 0, 100)
            /\ r.win_score = (IF call.sample.win THEN Points(25) ELSE Points(5))
            /\ InPoints(r.stat_score, 0, 50)
            /\ 0 <= r.impact_score /\ r.impact_score <= Points(20)
            /\ r.score.value = r.win_score + r.stat_score.value + r.impact_score

\* C19: of two samples that differ only in the win flag, scored against the
\* same role statistics, the winning one scores strictly higher
C19_WinScoresHigher ==
    (call.op = "calculate_performance_score" /\ call.out # None) =>
        LET won  == IF call.sample.win THEN call.out.scored ELSE call.out.flipped
            lost == IF call.sample.win THEN call.out.flipped ELSE call.out.scored
        IN  /\ ~won.score.nan /\ ~lost.score.nan
            /\ won.score.value > lost.score.value

\* C20: when no weighted statistic is both in the role statistics and in the
\* sample, the relative-statistics component is 25 and the score is
\* outcome + 25 + impact
C20_MidpointDefault ==
    (/\ call.op = "calculate_performance_score" /\ call.out # None
     /\ AvailableStats(call.out.role_stats, call.sample) = {}) =>
        LET r == call.out.scored
        IN  /\ r.stat_score = Float(Points(25))
            /\ r.score = Float(r.win_score + Points(25) + r.impact_score)

\* the feature each optional key feeds alone
FeatureOfField ==
    [neutralMinionsKilled |-> "jungle_cs", turretKills |-> "turrets",
     dragonKills |-> "dragons", baronKills |-> "barons",
     firstBloodKill |-> "first_blood", firstTowerKill |-> "first_tower",
     teamDamagePercentage |-> "damage_share", controlWardsPlaced |-> "control_wards",
     turretPlatesTaken |-> "turret_plates",
     maxCsAdvantageOnLaneOpponent |-> "cs_advantage",
     earlyLaningPhaseGoldExpAdvantage |-> "gold_advantage",
     killParticipation |-> "kill_participation", soloKills |-> "solo_kills",
     skillshotsHit |-> "skillshots_hit", skillshotsDodged |-> "skillshots_dodged"]

\* the keys missing from a participant record, challenges included
MissingFields(participant) ==
    ((CommonRequiredFields \cup OptionalFields) \ DOMAIN participant.stats)
        \cup (ChallengeFields \ DOMAIN participant.challenges)

\* the vector holds every declared feature, and zero where the source key of
\* the feature is missing
FullVector(out, participant) ==
    /\ out # Raised
    /\ DOMAIN out.features = Range(FEATURE_COLUMNS)
    /\ \A k \in MissingFields(participant) \cap DOMAIN FeatureOfField :
          out.features[FeatureOfField[k]] = 0
    /\ {"laneMinionsFirst10Minutes", "jungleCsBefore10Minutes"}
            \subseteq MissingFields(participant) => out.features["cs_at_10"] = 0

C23_TrainingMatchesInference ==
    (/\ call.op = "extract_features" /\ call.out # None
     /\ call.out.training # Raised /\ call.out.inference # Raised) =>
        \A i \in DOMAIN call.out.training.samples :
            LET sample == call.out.training.samples[i]
                features == call.out.inference.features
            IN  \A name \in DOMAIN sample \cap DOMAIN features :
                    sample[name] = features[name]

\* the number of samples of a list whose win flag is set
WinCount(X) == Len(SelectSeq(WinsOf(X), LAMBDA w : w = 1))

\* C22: compute_statistics reports total_games = number of samples, wins =
\* number of samples whose win flag is set, losses = total_games - wins and
\* win_rate = wins / total_games, so wins + losses = total_games; 5 samples
\* with 3 wins give wins 3, losses 2, win_rate 0.6
C22_Statistics ==
    (p_out # None /\ "statistics" \in DOMAIN p_out) =>
        LET st == p_out.statistics
        IN  /\ st.total_games = Len(p_features)
            /\ st.wins = WinCount(p_features)
            /\ st.losses = st.total_games - st.wins
            /\ st.wins + st.losses = st.total_games
            /\ st.win_rate.num * st.total_games = st.wins * st.win_rate.den
            /\ (Len(p_features) = 5 /\ WinCount(p_features) = 3) =>
                  /\ st.wins = 3 /\ st.losses = 2
                  /\ st.win_rate.num * 10 = 6 * st.win_rate.den

C22_Witness ==
    /\ p_out # None /\ "statistics" \in DOMAIN p_out
    /\ Len(p_features) = 5 /\ WinCount(p_features) = 3
    /\ p_out.statistics.wins = 3 /\ p_out.statistics.losses = 2
    /\ p_out.statistics.win_rate = [num |-> 3, den |-> 5]

\* the roles of a run's input with at least MinRoleSamples samples
TrainableRoles(input) ==
    {input.roles[j].role : j \in {k \in DOMAIN input.roles :
                                      input.roles[k].samples >= MinRoleSamples}}

\* C24: every run of main on an input with at least one role reaches
\* save_models, which saves a model for exactly the roles with >= 100
\* samples and writes model_metadata.json (its roles the trained roles, its
\* num_matches the input's) and features.json
C24_ReachesSaveModels ==
    (call.op = "main" /\ call.pc = "load") ~>
        (/\ call.op = "main" /\ call.pc = "saved"
         /\ call.saved.model_files = TrainableRoles(call.input)
         /\ call.saved.metadata.roles = TrainableRoles(call.input)
         /\ call.saved.metadata.num_matches = call.input.num_matches
         /\ call.saved.features = FEATURE_COLUMNS)

\* C25 (as stated): under every interleaving of two concurrent runs, once
\* both have finished the final analysis embeds as ml_results the record
\* stored as the cache record
C25_AnalysisEmbedsCache ==
    ((\A r \in Runs : pc[r] = "done") /\ analysis # None) =>
        analysis.ml_results = cache

\* C25 (amended): under every interleaving of two concurrent runs, each final
\* analysis embeds as ml_results the cache record of the run that writes it:
\* the record that run stored under the cache key when it recomputed, the
\* record it read from the cache key when it skipped
C25_AnalysisEmbedsOwnRecord ==
    /\ [][analysis' # analysis =>
            \E r \in Runs :
                /\ pc'[r] = "done"
                /\ \/ pc[r] = "use_cached" /\ analysis'.ml_results = existing_ml[r]
                   \/ pc[r] = "stored" /\ analysis'.ml_results = ml_results[r]]_vars
    /\ [][\A r \in Runs :
            /\ (pc[r] = "recompute" /\ pc'[r] = "stored") => cache' = ml_results'[r]
            /\ (pc[r] = "idle" /\ pc'[r] = "use_cached") =>
                    cache # None /\ existing_ml'[r] = cache]_vars

\* both runs have recomputed and returned 200, and the analysis embeds the
\* record of the run whose cache record the other has replaced
C25_Witness ==
    /\ \A r \in Runs : pc[r] = "done" /\ response[r].statusCode = 200
                        /\ ~response[r].cached
    /\ analysis # None /\ cache # None
    /\ analysis.ml_results # cache

\* C26: a run that follows a successful recompute on the same batch decides
\* to skip with reason "No new matches" and leaves the cache record unchanged
C26_RecomputeIdempotent ==
    [][\A q \in Runs : \A r \in Runs \ {q} :
          /\ (/\ pc[q] = "stored" /\ cache = ml_results[q]
              /\ pc[r] = "idle" /\ pc'[r] # "idle"
              /\ raw_data'[r] = raw_data[q]) =>
                  /\ pc'[r] = "use_cached"
                  /\ decision'[r] = [recompute |-> FALSE, reason |-> "No new matches"]
          /\ (/\ pc[r] = "use_cached" /\ pc'[r] = "done"
              /\ decision[r].reason = "No new matches") => cache' = cache]_vars

\* C27: of two samples that differ only in time_dead_pct, scored against the
\* same role statistics, the one with the larger time_dead_pct never receives
\* the higher score
C27_TimeDeadLowersScore ==
    (call.op = "calculate_performance_score" /\ call.out # None) =>
        ~(/\ ~call.out.deader.score.nan /\ ~call.out.scored.score.nan
          /\ call.out.deader.score.value > call.out.scored.score.value)

\* C28: in every PredictionResult the thresholds >= 90 S, >= 80 A, >= 70 B,
\* >= 60 C, >= 50 D, else F applied to the reported performance_score give
\* the reported grade
C28_GradeAgreesWithScore ==
    (call # None /\ call.op = "predict_performance" /\ call.out \notin {None, Raised}) =>
        LET reported == call.out.performance_score
        IN  call.out.grade =
                (IF reported >= Points(90) THEN "S"
                 ELSE IF reported >= Points(80) THEN "A"
                 ELSE IF reported >= Points(70) THEN "B"
                 ELSE IF reported >= Points(60) THEN "C"
                 ELSE IF reported >= Points(50) THEN "D"
                 ELSE "F")

\* C30: over any sequence of _make_request calls, no more than 100 requests
\* are let through _rate_limit within any 120-second window
C30_RateWithinLimit ==
    (call # None /\ call.op = "_make_request") => Len(call.through) <= 100

\* every collected match has contributed its samples once, and no other
\* match has contributed any
ContributesOnce(training_samples, collected_matches) ==
    /\ Range(training_samples) = collected_matches
    /\ \A m \in collected_matches :
          Cardinality({i \in DOMAIN training_samples : training_samples[i] = m})
              = Len(SamplePlayers(m))

\* the bounds of the loop: matches collected, samples per match, queue length
CollectBounds ==
    (call # None /\ call.op = "collect_training_data") =>
        /\ Cardinality(call.collected_matches) <= call.num_matches
        /\ ContributesOnce(call.training_samples, call.collected_matches)
        /\ Len(call.puuid_queue) <= call.seeds + QueueLimit

\* C29: collect_training_data terminates, and at every point of its loop
\* the collected matches are at most num_matches, no match id contributes
\* samples more than once, and the queue holds at most 200 entries beyond
\* the initial seeds
C29_CollectTerminates ==
    /\ [][CollectBounds']_vars
    /\ <>(call # None /\ call.op = "collect_training_data"
            /\ call.pc \in {"done", "raised"})

\* the run has ended with num_matches matches collected and the queue at
\* its limit, a player of the last match having been refused
C29_Witness ==
    /\ call # None /\ call.op = "collect_training_data" /\ call.pc = "done"
    /\ call.num_matches = MaxCollect
    /\ Cardinality(call.collected_matches) = MaxCollect
    /\ call.seeds = QueueLimit - 1
    /\ Len(call.puuid_queue) = QueueLimit

====
